---- MODULE Spec2Model ----
(***************************************************************************)
(* Agent orchestration pipeline and adaptive memory engine (SICC) of the   *)
(* multi-tenant agent backend.                                             *)
(*                                                                         *)
(* Texts are sequences of tokens (the empty string is << >>), router       *)
(* answers and skill names are sequences of characters, scores are         *)
(* hundredths (0.85 is 85, the 0.05 relevance boost is 5).                 *)
(***************************************************************************)
EXTENDS Integers, Sequences, FiniteSets, TLC

VARIABLES
    pc,              \* position of AgentService.process_message
    state,           \* the AgentState threaded through the graph
    steps,           \* graph super-steps executed in this turn
    trace,           \* nodes executed in this turn, in order
    faults,          \* external failures that happened in this turn
    router_answer,   \* raw content of the router model's answer in this turn
    llm_response,    \* generate_response's local `response.content`
    result,          \* what process_message returned
    message_text,    \* inbound text of the current turn
    sicc_enabled,    \* nodes.sicc_service is not None
    registry,        \* SkillRegistry._registry (skill names)
    history,         \* session store list of the conversation
    handoffs,        \* rows of multi_agent_handoffs
    chunks,          \* rows of sicc_memory_chunks
    last_search,        \* MemoryEngine.search calls made and what they returned
    logs,            \* rows of sicc_learning_logs
    patterns,        \* rows of sicc_behavior_patterns
    workers,         \* callers inside the learning supervisor
    emb_model,       \* SICCEmbeddings._model (0 is None, else the instance)
    emb_lock,        \* holder of SICCEmbeddings._lock (0 when free)
    emb_built,       \* SentenceTransformer instances constructed so far
    callers,         \* coroutines inside SICCEmbeddings.get_model
    calls,           \* store writes requested in this turn, in order
    llm_keys,        \* credentials of the model clients called in this turn
    sessions,        \* session store: the list kept under each conversation key
    appended,        \* every message pushed under a key since the key exists
    last_read,       \* what the last get_history call returned
    few_shot,        \* the last few-shot block assembled, and for whom
    graph_nodes,     \* skills that have a node in the compiled graph
    breaker,         \* the CircuitBreaker of one external service
    checks,          \* health checks of that service, each one's position
    utcnow           \* datetime.utcnow(), in units of 30 seconds

vars == <<pc, state, steps, trace, faults, router_answer, llm_response, result,
          message_text, sicc_enabled, registry, history, handoffs,
          chunks, last_search, logs, patterns, workers,
          emb_model, emb_lock, emb_built, callers, calls, llm_keys,
          sessions, appended, last_read, few_shot, graph_nodes,
          breaker, checks, utcnow>>

turnVars == <<pc, state, steps, trace, faults, router_answer, llm_response,
              result, message_text, history, handoffs, calls, llm_keys>>

learnVars == <<logs, patterns, workers>>

embedVars == <<emb_model, emb_lock, emb_built, callers>>

sessionVars == <<sessions, appended, last_read>>

breakerVars == <<breaker, checks, utcnow>>

\* state of the services beside the pipeline
extraVars == <<sessionVars, few_shot, graph_nodes, breakerVars>>

----
\* Bounds of the model

\* super-steps the graph runs before it stops the turn with a recursion
\* error (the graph library's recursion limit, scaled down)
MaxSteps == 8
MaxChunks == 3
MaxLogs == 2
MaxPatterns == 3

----
\* Python values

None == <<"<None>">>

Truthy(x) == x # None /\ x # << >>

Tenants == {"A", "B"}

----
\* str.strip() and str.lower() on character sequences

Whitespace == {" ", "\n", "\t"}

UpperChars == <<"A","B","C","D","E","F","G","H","I","J","K","L","M",
                "N","O","P","Q","R","S","T","U","V","W","X","Y","Z">>

LowerChars == <<"a","b","c","d","e","f","g","h","i","j","k","l","m",
                "n","o","p","q","r","s","t","u","v","w","x","y","z">>

LowerChar(c) ==
    IF \E i \in 1..Len(UpperChars) : UpperChars[i] = c
    THEN LowerChars[CHOOSE i \in 1..Len(UpperChars) : UpperChars[i] = c]
    ELSE c

Lower(s) == [i \in 1..Len(s) |-> LowerChar(s[i])]

RECURSIVE LStrip(_)
LStrip(s) ==
    IF s # << >> /\ Head(s) \in Whitespace THEN LStrip(Tail(s)) ELSE s

RECURSIVE RStrip(_)
RStrip(s) ==
    IF s # << >> /\ s[Len(s)] \in Whitespace
    THEN RStrip(SubSeq(s, 1, Len(s) - 1))
    ELSE s

Strip(s) == RStrip(LStrip(s))

\* str.replace(old, "") where old is one token of the text
RemoveToken(s, tok) == SelectSeq(s, LAMBDA t : t # tok)

Take(s, n) == SubSeq(s, 1, IF n < Len(s) THEN n ELSE Len(s))

----
\* Memory store (sicc_memory_chunks) and MemoryEngine

RelevanceBoost == 5
PrepareContextLimit == 3
SearchDefaultLimit == 5

Similar(query, content) ==
    \E i \in 1..Len(query) : \E j \in 1..Len(content) : query[i] = content[j]

\* RPC search_sicc_memories_hybrid: tenant-scoped similarity query
search_sicc_memories_hybrid(p_tenant_id, p_query_text, p_max_results) ==
    Take(SelectSeq(chunks, LAMBDA c : c.tenant_id = p_tenant_id
                                      /\ Similar(p_query_text, c.content)),
         p_max_results)

\* RPC update_sicc_memory_relevance applied to the store rows
update_sicc_memory_relevance(rows, p_tenant_id, p_memory_id, p_boost) ==
    [i \in 1..Len(rows) |->
        IF rows[i].id = p_memory_id /\ rows[i].tenant_id = p_tenant_id
        THEN [rows[i] EXCEPT !.relevance_score = @ + p_boost]
        ELSE rows[i]]

\* an unfiltered similarity query (no tenant argument honoured)
SearchRowsUnscoped(tenant_id, query, limit) ==
    Take(SelectSeq(chunks, LAMBDA c : Similar(query, c.content)), limit)

\* MemoryEngine.search step 2: the rows of the RPC called with the caller's tenant
SearchRows(tenant_id, query, limit) ==
    search_sicc_memories_hybrid(tenant_id, query, limit)

\* a boost loop that stops after the first returned row
BoostRowsFirstOnly(rows, tenant_id, found, n) ==
    IF n = 0 THEN rows
    ELSE update_sicc_memory_relevance(rows, tenant_id, found[1].id, RelevanceBoost)

\* MemoryEngine.search step 3: the store after the first n boosts were applied
RECURSIVE BoostRows(_, _, _, _)
BoostRows(rows, tenant_id, found, n) ==
    IF n = 0 THEN rows
    ELSE update_sicc_memory_relevance(BoostRows(rows, tenant_id, found, n - 1),
                                      tenant_id, found[n].id, RelevanceBoost)

\* MemoryEngine.search: failAt = 0 the query fails, failAt = k the k-th boost
\* fails, failAt > number of rows nothing fails; every failure is caught
MemoryEngine_search(tenant_id, query, limit, failAt) ==
    LET found == SearchRows(tenant_id, query, limit)
        n == IF failAt = 0 THEN 0
             ELSE IF failAt > Len(found) THEN Len(found) ELSE failAt - 1
    IN  [raised |-> FALSE,
         value  |-> IF failAt > Len(found)
                    THEN [i \in 1..Len(found) |->
                            [id |-> found[i].id, tenant_id |-> tenant_id,
                             content |-> found[i].content,
                             relevance_score |-> found[i].relevance_score]]
                    ELSE << >>,
         store  |-> BoostRows(chunks, tenant_id, found, n)]

\* MemoryEngine.store: the row inserted for a chunk (ok) or nothing (caught error)
MemoryStore(tenant_id, content, ok) ==
    IF ok
    THEN Append(chunks, [id |-> Len(chunks) + 1, tenant_id |-> tenant_id,
                         content |-> content, relevance_score |-> 0])
    ELSE chunks

----
\* Behavior store (sicc_behavior_patterns) and BehaviorEngine

\* BehaviorEngine.get_active_patterns: ok = FALSE is a store error, caught
\* get_active_patterns without the is_active filter
get_active_patterns_any_status(tenant_id, ok) ==
    [raised |-> FALSE,
     value  |-> IF ok
                THEN SelectSeq(patterns, LAMBDA p : p.tenant_id = tenant_id)
                ELSE << >>]

get_active_patterns(tenant_id, ok) ==
    [raised |-> FALSE,
     value  |-> IF ok
                THEN SelectSeq(patterns, LAMBDA p : p.tenant_id = tenant_id
                                                    /\ p.is_active)
                ELSE << >>]

RECURSIVE FewShotLines(_)
FewShotLines(ps) ==
    IF ps = << >> THEN << >>
    ELSE <<"- QUANDO:", Head(ps).trigger_condition,
           "RESPOSTA SUGERIDA:", Head(ps).response_template>>
         \o FewShotLines(Tail(ps))

build_dynamic_few_shot(ps) ==
    IF ps = << >> THEN << >>
    ELSE <<"### EXEMPLOS DE COMPORTAMENTO APRENDIDO (SICC):">> \o FewShotLines(ps)

\* "\n".join(m.content for m in memories)
RECURSIVE JoinContents(_)
JoinContents(ms) ==
    IF ms = << >> THEN << >>
    ELSE IF Len(ms) = 1 THEN Head(ms).content
    ELSE Head(ms).content \o <<"\n">> \o JoinContents(Tail(ms))

\* SICCService.prepare_context
prepare_context(tenant_id, message, failAt, behOk) ==
    LET m == MemoryEngine_search(tenant_id, message, PrepareContextLimit, failAt)
        p == get_active_patterns(tenant_id, behOk)
    IN  [raised           |-> m.raised \/ p.raised,
         memory_context   |-> JoinContents(m.value),
         few_shot_context |-> build_dynamic_few_shot(p.value),
         store            |-> m.store,
         found            |-> m.value]

----
\* Skill registry and router

product_sales == <<"p","r","o","d","u","c","t","_","s","a","l","e","s">>

general == <<"g","e","n","e","r","a","l">>

RouterAnswers ==
    { general,
      <<"G","e","n","e","r","a","l">>,
      product_sales,
      <<" ","P","R","O","D","U","C","T","_","S","A","L","E","S","\n">>,
      <<"s","a","l","e","s">>,
      << >> }

\* a router that trusts the model's answer to be a skill name
SkillRouter_route_trusting(active_skills, answer) ==
    LET decision == Lower(Strip(answer))
    IN  IF decision = general
        THEN [node |-> "generate", skill |-> << >>]
        ELSE [node |-> "skill", skill |-> decision]

\* a router that compares the answer as the model wrote it
SkillRouter_route_case_sensitive(active_skills, answer) ==
    LET decision == Strip(answer)
    IN  IF decision = general
        THEN [node |-> "generate", skill |-> << >>]
        ELSE IF \E s \in active_skills : s = decision
             THEN [node |-> "skill", skill |-> decision]
             ELSE [node |-> "generate", skill |-> << >>]

\* SkillRouter.route: the node name for the model's answer
SkillRouter_route(active_skills, answer) ==
    LET decision == Lower(Strip(answer))
    IN  IF decision = general
        THEN [node |-> "generate", skill |-> << >>]
        ELSE IF \E s \in active_skills : s = decision
             THEN [node |-> "skill", skill |-> decision]
             ELSE [node |-> "generate", skill |-> << >>]

\* dynamic_skill_router: every registered skill is offered to the router
dynamic_skill_router(answer) == SkillRouter_route(registry, answer)

----
\* Inputs of a turn

Messages == { <<"oi">>, <<"preco", "colchao">> }

GenContents == { << >>, <<"resposta">>, <<"resposta", "corrigida">> }

Catalog == << [name |-> "colchao", price |-> 3290] >>

\* what the Response Supervisor's model call produced
SupervisorVerdicts ==
    { [kind |-> "approved", reason |-> None, hint |-> None],
      [kind |-> "rejected", reason |-> <<"preco", "errado">>, hint |-> <<"use", "3290">>],
      [kind |-> "rejected", reason |-> <<"preco", "errado">>, hint |-> << >>],
      [kind |-> "rejected", reason |-> None, hint |-> None],
      [kind |-> "error", reason |-> None, hint |-> None] }

CorrectionMarker == "[CORRIGIDO]"

Analyses ==
    { <<"OK">>,
      <<CorrectionMarker, " ", "resposta", "no", "tom">>,
      <<CorrectionMarker>>,
      <<"resposta", CorrectionMarker>>,
      <<CorrectionMarker, " ", "corrigida", CorrectionMarker>> }

\* what the handoff model call produced: parsed JSON, or an error
HandoffOutputs ==
    { [kind |-> "json", has_key |-> TRUE, should_handoff |-> TRUE, reason |-> <<"pediu", "atendente">>],
      [kind |-> "json", has_key |-> TRUE, should_handoff |-> FALSE, reason |-> None],
      [kind |-> "json", has_key |-> FALSE, should_handoff |-> FALSE, reason |-> None],
      [kind |-> "invalid_json", has_key |-> FALSE, should_handoff |-> FALSE, reason |-> None],
      [kind |-> "error", has_key |-> FALSE, should_handoff |-> FALSE, reason |-> None] }

AGENT_MEMORY_WINDOW == 20

\* RedisMemoryManager.add_message: rpush then ltrim to the last max_window
\* add_message trimming with `ltrim key 0 max_window-1`: the oldest are kept
add_message_keeps_oldest(h, role, content) ==
    Take(Append(h, [role |-> role, content |-> content]), AGENT_MEMORY_WINDOW)

add_message(h, role, content) ==
    LET pushed == Append(h, [role |-> role, content |-> content])
    IN  IF Len(pushed) > AGENT_MEMORY_WINDOW
        THEN SubSeq(pushed, Len(pushed) - AGENT_MEMORY_WINDOW + 1, Len(pushed))
        ELSE pushed

\* the last message of state["messages"]
LastMessage == state.messages[Len(state.messages)].content

Count(seq, x) == Cardinality({i \in 1..Len(seq) : seq[i] = x})

GraphPcs == {"load_context", "sicc_retriever", "skill", "generate",
             "supervisor", "sicc_reflection", "check_handoff"}

----
\* Model credentials

\* settings.OPENAI_API_KEY, the deployment's own credential
OPENAI_API_KEY == <<"sk-global">>

\* the tenant rows tenant_service.get_by_id returns: tenant B carries a
\* credential of its own, tenant A none
TenantRecord(tenant_id) ==
    [agent_name |-> <<"BIA">>,
     agent_personality |-> None,
     openai_api_key |-> IF tenant_id = "B" THEN <<"sk-B">> ELSE None]

\* dict.get(key)
DictGet(d, key) == IF key \in DOMAIN d THEN d[key] ELSE None

\* the tenant_config process_message puts into the initial state
tenant_config_of(tenant) ==
    [agent_name |-> tenant.agent_name,
     agent_personality |-> tenant.agent_personality]

\* get_llm: the credential of the client it returns
get_llm(tenant_config) ==
    IF Truthy(DictGet(tenant_config, "openai_api_key"))
    THEN tenant_config.openai_api_key
    ELSE OPENAI_API_KEY

----
\* AgentService.process_message and the nodes of the graph

\* process_message steps 1-2: tenant lookup and the initial state
StartTurn(tenant_id, text, found) ==
    /\ pc = "idle"
    /\ message_text' = text
    /\ steps' = 0
    /\ trace' = << >>
    /\ router_answer' = None
    /\ llm_response' = None
    /\ result' = None
    /\ IF found
       THEN /\ pc' = "load_context"
            /\ faults' = {}
            /\ state' = [tenant_id |-> tenant_id,
                         tenant_config |-> tenant_config_of(TenantRecord(tenant_id)),
                         messages |-> << [role |-> "user", content |-> text] >>,
                         knowledge_context |-> << >>,
                         sicc_memory_context |-> None,
                         sicc_few_shot_context |-> None,
                         intent |-> << >>,
                         final_response |-> << >>,
                         should_handoff |-> FALSE,
                         handoff_reason |-> None,
                         supervisor_feedback |-> None,
                         products_recommended |-> << >>]
       ELSE /\ pc' = "raised"
            /\ faults' = {"tenant_lookup"}
            /\ UNCHANGED state
    /\ UNCHANGED <<history, handoffs, sicc_enabled, registry, embedVars, extraVars, chunks, last_search,
                   logs, patterns, workers>>
    /\ calls' = << >>
    /\ llm_keys' = {}

\* the graph stops a run that needs more super-steps than its limit
GraphRecursionError ==
    /\ pc \in GraphPcs
    /\ steps >= MaxSteps
    /\ pc' = "raised"
    /\ faults' = faults \cup {"recursion_limit"}
    /\ UNCHANGED <<state, steps, trace, router_answer, llm_response, result,
                   message_text, history, handoffs, sicc_enabled,
                   registry, embedVars, extraVars, chunks, last_search, logs, patterns, workers>>
    /\ UNCHANGED <<calls, llm_keys>>

\* load_context
load_context(ok) ==
    /\ pc = "load_context"
    /\ steps < MaxSteps
    /\ steps' = steps + 1
    /\ trace' = Append(trace, "load_context")
    /\ IF ok
       THEN /\ state' = [state EXCEPT
                           !.messages = history \o state.messages,
                           !.knowledge_context = << >>,
                           !.sicc_memory_context = << >>,
                           !.sicc_few_shot_context = << >>]
            /\ pc' = "sicc_retriever"
            /\ UNCHANGED faults
       ELSE /\ pc' = "raised"
            /\ faults' = faults \cup {"session_store"}
            /\ UNCHANGED state
    /\ UNCHANGED <<router_answer, llm_response, result, message_text,
                   history, handoffs, sicc_enabled, registry, embedVars, extraVars, chunks, last_search,
                   logs, patterns, workers>>
    /\ UNCHANGED <<calls, llm_keys>>

\* sicc_retriever
sicc_retriever(failAt, behOk) ==
    /\ pc = "sicc_retriever"
    /\ steps < MaxSteps
    /\ steps' = steps + 1
    /\ trace' = Append(trace, "sicc_retriever")
    /\ IF ~sicc_enabled
       THEN /\ failAt = 0
            /\ behOk
            /\ pc' = "route"
            /\ UNCHANGED <<state, faults, chunks, last_search>>
       ELSE LET ctx == prepare_context(state.tenant_id, LastMessage, failAt, behOk)
                nfound == Len(SearchRows(state.tenant_id, LastMessage,
                                         PrepareContextLimit))
            IN  /\ failAt \in 0..(nfound + 1)
                /\ chunks' = ctx.store
                /\ last_search' = [tenant_id |-> state.tenant_id,
                                query |-> LastMessage,
                                returned |-> {ctx.found[i].id : i \in 1..Len(ctx.found)}]
                /\ faults' = faults
                             \cup (IF failAt <= nfound THEN {"memory_search"} ELSE {})
                             \cup (IF behOk THEN {} ELSE {"behavior_fetch"})
                /\ IF ctx.raised
                   THEN /\ pc' = "raised"
                        /\ UNCHANGED state
                   ELSE /\ pc' = "route"
                        /\ state' = [state EXCEPT
                                       !.sicc_memory_context = ctx.memory_context,
                                       !.sicc_few_shot_context = ctx.few_shot_context]
    /\ UNCHANGED <<router_answer, llm_response, result, message_text,
                   history, handoffs, sicc_enabled, registry, embedVars, extraVars, logs, patterns,
                   workers>>
    /\ UNCHANGED <<calls, llm_keys>>

\* the conditional edge after sicc_retriever: the router's model call answered
route_answer(answer) ==
    /\ pc = "route"
    /\ router_answer' = answer
    /\ LET decision == dynamic_skill_router(answer)
       IN  IF decision.node = "skill" /\ decision.skill \notin graph_nodes
           THEN \* the graph has no node of that name: the run fails
                /\ pc' = "raised"
                /\ faults' = faults \cup {"missing_node"}
           ELSE /\ pc' = decision.node
                /\ UNCHANGED faults
    /\ UNCHANGED <<state, steps, trace, llm_response, result, message_text, history, handoffs, sicc_enabled, registry, embedVars, extraVars,
                   chunks, last_search, logs, patterns, workers>>
    /\ llm_keys' = llm_keys \cup {OPENAI_API_KEY}
    /\ UNCHANGED calls

\* the conditional edge after sicc_retriever: the router's model call failed
route_fails ==
    /\ pc = "route"
    /\ pc' = "raised"
    /\ faults' = faults \cup {"router_llm"}
    /\ UNCHANGED <<state, steps, trace, router_answer, llm_response, result,
                   message_text, history, handoffs, sicc_enabled,
                   registry, embedVars, extraVars, chunks, last_search, logs, patterns, workers>>
    /\ llm_keys' = llm_keys \cup {OPENAI_API_KEY}
    /\ UNCHANGED calls

\* skill_node_wrapper around SalesSkill.execute
skill_node(products) ==
    /\ pc = "skill"
    /\ steps < MaxSteps
    /\ steps' = steps + 1
    /\ trace' = Append(trace, "skill")
    /\ state' = [state EXCEPT
                   !.products_recommended = products,
                   !.knowledge_context =
                       IF products = << >>
                       THEN <<"PRODUTOS", "Nenhum produto">>
                       ELSE <<"PRODUTOS", products[1].name>>]
    /\ pc' = "generate"
    /\ UNCHANGED <<faults, router_answer, llm_response, result, message_text, history, handoffs, sicc_enabled, registry, embedVars, extraVars,
                   chunks, last_search, logs, patterns, workers>>
    /\ UNCHANGED <<calls, llm_keys>>

\* generate_response up to the model call: content is response.content,
\* ok = FALSE is a failed call
generate_response(content, ok) ==
    /\ pc = "generate"
    /\ steps < MaxSteps
    /\ steps' = steps + 1
    /\ trace' = Append(trace, "generate")
    /\ IF ~ok
       THEN /\ pc' = "raised"
            /\ faults' = faults \cup {"generate_llm"}
            /\ UNCHANGED <<state, llm_response>>
       ELSE /\ UNCHANGED faults
            /\ IF sicc_enabled
               THEN /\ pc' = "store_interaction"
                    /\ llm_response' = content
                    /\ UNCHANGED state
               ELSE /\ pc' = "supervisor"
                    /\ llm_response' = content
                    /\ state' = [state EXCEPT !.final_response = content]
    /\ UNCHANGED <<router_answer, result, message_text, history,
                   handoffs, sicc_enabled, registry, embedVars, extraVars, chunks, last_search, logs,
                   patterns, workers>>
    /\ llm_keys' = llm_keys \cup {get_llm(state.tenant_config)}
    /\ UNCHANGED calls

\* generate_response from the awaited store_interaction to its return
generate_store_interaction(ok) ==
    /\ pc = "store_interaction"
    /\ ok => Len(chunks) < MaxChunks
    /\ chunks' = MemoryStore(state.tenant_id, LastMessage, ok)
    /\ faults' = faults \cup (IF ok THEN {} ELSE {"memory_store"})
    /\ state' = [state EXCEPT !.final_response = llm_response]
    /\ pc' = "supervisor"
    /\ UNCHANGED <<steps, trace, router_answer, llm_response, result, message_text, history, handoffs, sicc_enabled, registry, embedVars, extraVars,
                   last_search, logs, patterns, workers>>
    /\ calls' = Append(calls, "memory.store")
    /\ UNCHANGED llm_keys

\* supervisor_router whose approving edge bypasses the reflection node
supervisor_router_skips_reflection(st) ==
    IF Truthy(st.supervisor_feedback) THEN "generate" ELSE "check_handoff"

\* supervisor_router
supervisor_router(st) ==
    IF Truthy(st.supervisor_feedback) THEN "generate" ELSE "sicc_reflection"

\* SupervisorNode.execute: the update it returns, merged into the state
SupervisorNode_execute(st, verdict) ==
    IF ~Truthy(st.final_response) THEN st
    ELSE IF verdict.kind = "rejected"
         THEN [st EXCEPT !.supervisor_feedback = verdict.hint,
                         !.final_response =
                             <<"[REPROVADO]", " ">>
                             \o (IF verdict.reason = None THEN <<"None">>
                                 ELSE verdict.reason)]
    ELSE IF verdict.kind = "approved"
         THEN [st EXCEPT !.supervisor_feedback = None]
    ELSE st

\* the supervisor node followed by its conditional edge
supervisor(verdict) ==
    /\ pc = "supervisor"
    /\ steps < MaxSteps
    /\ steps' = steps + 1
    /\ trace' = Append(trace, "supervisor")
    \* no model call is made for an empty reply: one verdict stands for it
    /\ Truthy(state.final_response) \/ verdict.kind = "error"
    /\ state' = SupervisorNode_execute(state, verdict)
    /\ faults' = faults \cup (IF Truthy(state.final_response) /\ verdict.kind = "error"
                              THEN {"supervisor_llm"} ELSE {})
    /\ pc' = supervisor_router(state')
    /\ UNCHANGED <<router_answer, llm_response, result, message_text,
                   history, handoffs, sicc_enabled, registry, embedVars, extraVars, chunks,
                   last_search, logs, patterns, workers>>
    /\ llm_keys' = llm_keys \cup (IF Truthy(state.final_response)
                                  THEN {OPENAI_API_KEY} ELSE {})
    /\ UNCHANGED calls

\* sicc_reflection's update for the model's analysis
sicc_reflection_update(st, analysis) ==
    IF analysis # << >> /\ Head(analysis) = CorrectionMarker
    THEN [st EXCEPT !.final_response = Strip(RemoveToken(analysis, CorrectionMarker))]
    ELSE st

\* sicc_reflection
sicc_reflection(analysis, ok) ==
    /\ pc = "sicc_reflection"
    /\ steps < MaxSteps
    /\ steps' = steps + 1
    /\ trace' = Append(trace, "sicc_reflection")
    /\ IF ~Truthy(state.final_response) \/ ~Truthy(state.sicc_few_shot_context)
       THEN /\ ok
            /\ analysis = <<"OK">>
            /\ pc' = "check_handoff"
            /\ UNCHANGED <<state, faults>>
       ELSE IF ok
            THEN /\ state' = sicc_reflection_update(state, analysis)
                 /\ pc' = "check_handoff"
                 /\ UNCHANGED faults
            ELSE /\ pc' = "raised"
                 /\ faults' = faults \cup {"reflection_llm"}
                 /\ UNCHANGED state
    /\ UNCHANGED <<router_answer, llm_response, result, message_text,
                   history, handoffs, sicc_enabled, registry, embedVars, extraVars, chunks,
                   last_search, logs, patterns, workers>>
    /\ llm_keys' = llm_keys \cup
                      (IF ~Truthy(state.final_response)
                          \/ ~Truthy(state.sicc_few_shot_context)
                       THEN {} ELSE {get_llm(state.tenant_config)})
    /\ UNCHANGED calls

\* evaluate_handoff without its try/except: a failed call or an unparsable
\* answer leaves the node as an exception
evaluate_handoff_uncaught(out) ==
    /\ pc = "check_handoff"
    /\ steps < MaxSteps
    /\ steps' = steps + 1
    /\ trace' = Append(trace, "check_handoff")
    /\ IF out.kind = "json"
       THEN /\ state' = [state EXCEPT
                           !.should_handoff = IF out.has_key THEN out.should_handoff
                                              ELSE FALSE,
                           !.handoff_reason = out.reason]
            /\ UNCHANGED faults
            /\ pc' = "finalize"
       ELSE /\ UNCHANGED state
            /\ faults' = faults \cup {"handoff_llm"}
            /\ pc' = "raised"
    /\ UNCHANGED <<router_answer, llm_response, result, message_text,
                   history, handoffs, sicc_enabled, registry, embedVars, extraVars, chunks,
                   last_search, logs, patterns, workers>>
    /\ llm_keys' = llm_keys \cup {get_llm(state.tenant_config)}
    /\ UNCHANGED calls

\* evaluate_handoff
evaluate_handoff(out) ==
    /\ pc = "check_handoff"
    /\ steps < MaxSteps
    /\ steps' = steps + 1
    /\ trace' = Append(trace, "check_handoff")
    /\ IF out.kind = "json"
       THEN /\ state' = [state EXCEPT
                           !.should_handoff = IF out.has_key THEN out.should_handoff
                                              ELSE FALSE,
                           !.handoff_reason = out.reason]
            /\ UNCHANGED faults
       ELSE /\ state' = [state EXCEPT !.should_handoff = FALSE]
            /\ faults' = faults \cup {"handoff_llm"}
    /\ pc' = "finalize"
    /\ UNCHANGED <<router_answer, llm_response, result, message_text,
                   history, handoffs, sicc_enabled, registry, embedVars, extraVars, chunks,
                   last_search, logs, patterns, workers>>
    /\ llm_keys' = llm_keys \cup {get_llm(state.tenant_config)}
    /\ UNCHANGED calls

\* AgentService._register_handoff: a store error is caught
_register_handoff(rows, tenant_id, reason, ok) ==
    IF ok
    THEN Append(rows, [tenant_id |-> tenant_id,
                       reason |-> IF Truthy(reason) THEN reason
                                  ELSE <<"Auto-detected">>,
                       status |-> "pending"])
    ELSE rows

\* process_message notifying the handoff sink before it persists the turn
process_message_writes_handoff_first(response_text, should_handoff, redisFail) ==
    (IF should_handoff THEN <<"handoff.insert">> ELSE << >>)
    \o <<"session.add_message:user">>
    \o (IF redisFail # 1 /\ Truthy(response_text)
        THEN <<"session.add_message:assistant">> ELSE << >>)

\* the store writes process_message requests after the graph returned, in
\* the order it requests them; the write numbered redisFail raises
process_message_writes(response_text, should_handoff, redisFail) ==
    <<"session.add_message:user">>
    \o (IF redisFail # 1 /\ Truthy(response_text)
        THEN <<"session.add_message:assistant">> ELSE << >>)
    \o (IF redisFail = 0 /\ should_handoff
        THEN <<"handoff.insert">> ELSE << >>)

\* process_message steps 3-4 and the return; redisFail = 1, 2 is the
\* add_message call that raises, 0 is none
finalize(redisFail, dbOk) ==
    /\ pc = "finalize"
    /\ LET response_text == state.final_response
           withUser == add_message(history, "user", message_text)
           withBoth == IF Truthy(response_text)
                       THEN add_message(withUser, "assistant", response_text)
                       ELSE withUser
       IN  /\ redisFail = 2 => Truthy(response_text)
           /\ IF redisFail = 0
              THEN /\ history' = withBoth
                   /\ IF state.should_handoff
                      THEN handoffs' = _register_handoff(handoffs, state.tenant_id,
                                                         state.handoff_reason, dbOk)
                      ELSE /\ dbOk
                           /\ UNCHANGED handoffs
                   /\ result' = [response |-> response_text,
                                 should_handoff |-> state.should_handoff,
                                 intent |-> state.intent]
                   /\ pc' = "returned"
                   /\ faults' = faults \cup (IF dbOk THEN {} ELSE {"handoff_store"})
              ELSE /\ dbOk
                   /\ history' = IF redisFail = 1 THEN history ELSE withUser
                   /\ pc' = "raised"
                   /\ faults' = faults \cup {"session_store"}
                   /\ UNCHANGED <<handoffs, result>>
    /\ UNCHANGED <<state, steps, trace, router_answer, llm_response, message_text, sicc_enabled, registry, embedVars, extraVars, chunks, last_search,
                   logs, patterns, workers>>
    /\ calls' = calls \o process_message_writes(state.final_response,
                                                 state.should_handoff, redisFail)
    /\ UNCHANGED llm_keys

\* SkillRegistry.register: a skill module is imported
SkillRegistry_register(name) ==
    /\ name \notin registry
    /\ registry' = registry \cup {name}
    /\ UNCHANGED <<turnVars, learnVars, embedVars, extraVars, sicc_enabled,
                   chunks, last_search>>

\* an external call of the turn (session store, memory store, a model, the
\* handoff table) never responds: no call of the pipeline is given a timeout,
\* so the coroutine stays suspended on it
external_call_hangs ==
    /\ pc \in GraphPcs \cup {"route", "store_interaction", "finalize"}
    /\ pc' = "waiting"
    /\ faults' = faults \cup {"no_response"}
    /\ UNCHANGED <<state, steps, trace, router_answer, llm_response, result,
                   message_text, history, handoffs, calls, llm_keys>>
    /\ UNCHANGED <<learnVars, embedVars, extraVars, sicc_enabled, registry, chunks, last_search>>

----
\* Learning engine and auto-approval supervisor

\* the store calls are synchronous, so one process runs one learning call at
\* a time; its store operations are the steps, each of which may fail
Workers == {"w1"}

Scores == {84, 85}

auto_approve_threshold == 85

AllTenants == "ALL"

PatternData == [trigger_condition |-> "cliente pergunta preco",
                response_template |-> "informar parcelamento"]

IdleWorker == [op |-> "idle", via |-> "direct", stage |-> "none",
               scope |-> AllTenants,
               pending |-> << >>, i |-> 1, log |-> 0, failed |-> FALSE,
               seen |-> {}, base |-> 0]

\* rows appended to sicc_learning_logs for a list of candidate scores
RECURSIVE NewLogs(_, _, _)
NewLogs(scores, tenant_id, firstId) ==
    IF scores = << >> THEN << >>
    ELSE << [id |-> firstId, tenant_id |-> tenant_id,
             pattern_data |-> PatternData,
             confidence_score |-> Head(scores), status |-> "pending"] >>
         \o NewLogs(Tail(scores), tenant_id, firstId + 1)

\* LearningEngine.suggest_learning: one insert of all candidates, error caught
suggest_learning(scores, tenant_id, ok) ==
    /\ scores # << >>
    /\ Len(logs) + Len(scores) <= MaxLogs
    /\ logs' = IF ok THEN logs \o NewLogs(scores, tenant_id, Len(logs) + 1)
               ELSE logs
    /\ UNCHANGED <<patterns, workers>>
    /\ UNCHANGED <<turnVars, sicc_enabled, registry, embedVars, extraVars, chunks, last_search>>

\* a scan that ignores the tenant argument
PendingQueryAllTenants(scope) ==
    SelectSeq(logs, LAMBDA l : l.status = "pending")

\* process_pending_learnings: the pending rows, of one tenant when given
PendingQuery(scope) ==
    SelectSeq(logs, LAMBDA l : l.status = "pending"
                               /\ (scope # AllTenants => l.tenant_id = scope))

\* a comparison that leaves out the threshold itself
QualifiesStrict(log) == log.confidence_score > auto_approve_threshold

\* process_pending_learnings: the auto-approval test of one row
Qualifies(log) == log.confidence_score >= auto_approve_threshold

\* process_pending_learnings: the query; a store error ends the call
process_pending_query(w, scope, ok) ==
    /\ workers[w].op \in {"idle", "done"}
    /\ workers' = [workers EXCEPT ![w] =
         IF ok
         THEN [IdleWorker EXCEPT
                 !.op = "process", !.scope = scope,
                 !.pending = PendingQuery(scope),
                 !.seen = {k \in 1..Len(logs) : logs[k].status = "pending"},
                 !.base = Len(patterns)]
         ELSE [IdleWorker EXCEPT !.op = "done", !.stage = "process",
                                 !.scope = scope, !.failed = TRUE,
                                 !.base = Len(patterns)]]
    /\ UNCHANGED <<logs, patterns>>
    /\ UNCHANGED <<turnVars, sicc_enabled, registry, embedVars, extraVars, chunks, last_search>>

\* process_pending_learnings: the loop over the pending rows
process_pending_next(w) ==
    /\ workers[w].op = "process"
    /\ workers[w].stage = "none"
    /\ LET me == workers[w]
       IN  workers' = [workers EXCEPT ![w] =
             IF me.i > Len(me.pending)
             THEN [me EXCEPT !.op = "done", !.stage = "process"]
             ELSE IF Qualifies(me.pending[me.i])
                  THEN [me EXCEPT !.stage = "approve",
                                  !.log = me.pending[me.i].id]
                  ELSE [me EXCEPT !.i = @ + 1]]
    /\ UNCHANGED <<logs, patterns>>
    /\ UNCHANGED <<turnVars, sicc_enabled, registry, embedVars, extraVars, chunks, last_search>>

\* approve_learning called directly for one log id
approve_learning_call(w, log_id) ==
    /\ workers[w].op \in {"idle", "done"}
    /\ workers' = [workers EXCEPT ![w] =
         [IdleWorker EXCEPT !.op = "approve", !.stage = "approve",
                            !.log = log_id, !.base = Len(patterns)]]
    /\ UNCHANGED <<logs, patterns>>
    /\ UNCHANGED <<turnVars, sicc_enabled, registry, embedVars, extraVars, chunks, last_search>>

\* where a caller goes when approve_learning returns
AfterApprove(me, failed) ==
    IF me.op = "process"
    THEN [me EXCEPT !.stage = "none", !.i = @ + 1, !.log = 0,
                    !.failed = @ \/ failed]
    ELSE [me EXCEPT !.op = "done", !.stage = "approve",
                    !.failed = @ \/ failed]

\* approve_learning step 1: fetch the log row
approve_learning_fetch(w, ok) ==
    /\ workers[w].stage = "approve"
    /\ workers[w].op \in {"process", "approve"}
    /\ LET me == workers[w]
       IN  workers' = [workers EXCEPT ![w] =
             IF ok /\ me.log \in 1..Len(logs)
             THEN [me EXCEPT !.stage = "fetched"]
             ELSE AfterApprove(me, ~ok)]
    /\ UNCHANGED <<logs, patterns>>
    /\ UNCHANGED <<turnVars, sicc_enabled, registry, embedVars, extraVars, chunks, last_search>>

\* the row approve_learning builds from a log
NewPattern(log) ==
    [tenant_id |-> log.tenant_id,
     trigger_condition |-> log.pattern_data.trigger_condition,
     response_template |-> log.pattern_data.response_template,
     confidence_score |-> log.confidence_score,
     is_active |-> TRUE,
     source_log |-> log.id]

\* approve_learning step 2: insert the behavior pattern
approve_learning_insert(w, ok) ==
    /\ workers[w].stage = "fetched"
    /\ ok => Len(patterns) < MaxPatterns
    /\ LET me == workers[w]
       IN  IF ok
           THEN /\ patterns' = Append(patterns, NewPattern(logs[me.log]))
                /\ workers' = [workers EXCEPT ![w] = [me EXCEPT !.stage = "inserted"]]
           ELSE /\ UNCHANGED patterns
                /\ workers' = [workers EXCEPT ![w] = AfterApprove(me, TRUE)]
    /\ UNCHANGED logs
    /\ UNCHANGED <<turnVars, sicc_enabled, registry, embedVars, extraVars, chunks, last_search>>

\* approve_learning step 3: mark the log approved
approve_learning_update(w, ok) ==
    /\ workers[w].stage = "inserted"
    /\ LET me == workers[w]
       IN  /\ logs' = IF ok THEN [logs EXCEPT ![me.log].status = "approved"]
                      ELSE logs
           /\ workers' = [workers EXCEPT ![w] = AfterApprove(me, ~ok)]
    /\ UNCHANGED patterns
    /\ UNCHANGED <<turnVars, sicc_enabled, registry, embedVars, extraVars, chunks, last_search>>

\* what the extraction model call can do: fail, or return a list of
\* candidates (their confidence scores), possibly empty
ExtractOutcomes ==
    { [kind |-> "error", scores |-> << >>], [kind |-> "json", scores |-> << >>] }
    \cup { [kind |-> "json", scores |-> <<a>>] : a \in Scores }

\* extract_patterns without its try/except
extract_patterns_uncaught(out) ==
    [raised |-> out.kind = "error", value |-> out.scores]

\* LearningEngine.extract_patterns: any error is caught and gives no candidate
extract_patterns(out) ==
    [raised |-> FALSE,
     value |-> IF out.kind = "error" THEN << >> ELSE out.scores]

\* SICCService.analyze_conversation up to the scan's query: extraction, then,
\* when there are candidates, suggest_learning and process_pending_learnings
\* of the tenant, whose loop the scan's own steps continue
analyze_conversation(w, tenant_id, out, suggestOk, queryOk) ==
    /\ workers[w].op \in {"idle", "done"}
    /\ LET ex == extract_patterns(out)
           started == [IdleWorker EXCEPT !.via = "analyze", !.scope = tenant_id,
                                         !.base = Len(patterns)]
       IN  IF ex.raised
           THEN /\ workers' = [workers EXCEPT ![w] =
                                  [started EXCEPT !.op = "raised",
                                                  !.stage = "extract"]]
                /\ UNCHANGED logs
           ELSE IF ex.value = << >>
           THEN /\ workers' = [workers EXCEPT ![w] =
                                  [started EXCEPT !.op = "done",
                                                  !.stage = "extract",
                                                  !.failed = (out.kind = "error")]]
                /\ UNCHANGED logs
           ELSE /\ Len(logs) + Len(ex.value) <= MaxLogs
                /\ logs' = IF suggestOk
                           THEN logs \o NewLogs(ex.value, tenant_id, Len(logs) + 1)
                           ELSE logs
                /\ workers' = [workers EXCEPT ![w] =
                     IF queryOk
                     THEN [started EXCEPT
                             !.op = "process",
                             !.pending = PendingQuery(tenant_id)',
                             !.seen = {k \in 1..Len(logs') :
                                          logs'[k].status = "pending"},
                             !.failed = ~suggestOk]
                     ELSE [started EXCEPT !.op = "done", !.stage = "process",
                                          !.failed = TRUE]]
    /\ UNCHANGED patterns
    /\ UNCHANGED <<turnVars, sicc_enabled, registry, embedVars, extraVars, chunks, last_search>>

----
\* Memory engine called directly (store_interaction, MemoryEngine.search)

MaxRelevance == 10

store_interaction(tenant_id, content, ok) ==
    /\ ok => Len(chunks) < MaxChunks
    /\ chunks' = MemoryStore(tenant_id, content, ok)
    /\ UNCHANGED last_search
    /\ UNCHANGED <<turnVars, learnVars, sicc_enabled, registry, embedVars, extraVars>>

memory_search(tenant_id, query, failAt) ==
    LET r == MemoryEngine_search(tenant_id, query, SearchDefaultLimit, failAt)
        nfound == Len(SearchRows(tenant_id, query, SearchDefaultLimit))
    IN  /\ failAt \in 0..(nfound + 1)
        /\ \A i \in 1..Len(chunks) : chunks[i].relevance_score < MaxRelevance
        /\ chunks' = r.store
        /\ last_search' = [tenant_id |-> tenant_id, query |-> query,
                           returned |-> {r.value[i].id : i \in 1..Len(r.value)}]
        /\ UNCHANGED <<turnVars, learnVars, sicc_enabled, registry, embedVars, extraVars>>

----
\* SICCEmbeddings.get_model: the lazily loaded embedding model

\* coroutines that request an embedding in the same process
MaxCallers == 3

Callers == 1..MaxCallers

IdleCaller == [pc |-> "idle", got |-> 0, saw_none |-> FALSE]

\* asyncio.Lock.locked() ignoring the holder: the lock never excludes
Lock_never_locked(holder) == FALSE

\* asyncio.Lock.locked(), as `async with cls._lock` tests it
Lock_locked(holder) == holder # 0

\* `if cls._model is None:` outside the lock
get_model_check(c) ==
    /\ callers[c].pc = "idle"
    /\ callers' = [callers EXCEPT ![c] =
                      IF emb_model = 0
                      THEN [pc |-> "acquire", got |-> 0, saw_none |-> TRUE]
                      ELSE [pc |-> "return", got |-> 0, saw_none |-> FALSE]]
    /\ UNCHANGED <<emb_model, emb_lock, emb_built>>
    /\ UNCHANGED <<turnVars, learnVars, sicc_enabled, registry, chunks, last_search, extraVars>>

\* `async with cls._lock:` waits until the lock is free, then
\* `if cls._model is None:` inside the lock
get_model_acquire(c) ==
    /\ callers[c].pc = "acquire"
    /\ ~Lock_locked(emb_lock)
    /\ emb_lock' = c
    /\ callers' = [callers EXCEPT ![c].pc =
                      IF emb_model = 0 THEN "loading" ELSE "release"]
    /\ UNCHANGED <<emb_model, emb_built>>
    /\ UNCHANGED <<turnVars, learnVars, sicc_enabled, registry, chunks, last_search, extraVars>>

\* `cls._model = await loop.run_in_executor(...)`: the constructor returns an
\* instance, or raises and the lock is released on the way out
get_model_load(c, ok) ==
    /\ callers[c].pc = "loading"
    /\ IF ok
       THEN /\ emb_built' = emb_built + 1
            /\ emb_model' = emb_built + 1
            /\ callers' = [callers EXCEPT ![c].pc = "release"]
            /\ UNCHANGED emb_lock
       ELSE /\ emb_lock' = 0
            /\ callers' = [callers EXCEPT ![c].pc = "raised"]
            /\ UNCHANGED <<emb_model, emb_built>>
    /\ UNCHANGED <<turnVars, learnVars, sicc_enabled, registry, chunks, last_search, extraVars>>

\* leaving the `async with` block
get_model_release(c) ==
    /\ callers[c].pc = "release"
    /\ emb_lock' = 0
    /\ callers' = [callers EXCEPT ![c].pc = "return"]
    /\ UNCHANGED <<emb_model, emb_built>>
    /\ UNCHANGED <<turnVars, learnVars, sicc_enabled, registry, chunks, last_search, extraVars>>

\* `return cls._model`
get_model_return(c) ==
    /\ callers[c].pc = "return"
    /\ callers' = [callers EXCEPT ![c].pc = "done", ![c].got = emb_model]
    /\ UNCHANGED <<emb_model, emb_lock, emb_built>>
    /\ UNCHANGED <<turnVars, learnVars, sicc_enabled, registry, chunks, last_search, extraVars>>

\* a caller whose request failed asks again (the next generate call)
get_model_retry(c) ==
    /\ callers[c].pc = "raised"
    /\ callers' = [callers EXCEPT ![c] = IdleCaller]
    /\ UNCHANGED <<emb_model, emb_lock, emb_built>>
    /\ UNCHANGED <<turnVars, learnVars, sicc_enabled, registry, chunks, last_search, extraVars>>

----
\* BehaviorEngine called over any contents of sicc_behavior_patterns

Triggers == <<"pergunta preco", "pergunta prazo", "pergunta garantia",
              "pergunta frete", "pergunta troca">>

Templates == <<"informar parcelamento", "informar entrega", "informar garantia",
               "informar frete", "informar troca">>

\* the k-th row of the table, of a tenant, active or deactivated
PatternRow(k, tenant_id, is_active) ==
    [tenant_id |-> tenant_id,
     trigger_condition |-> Triggers[k],
     response_template |-> Templates[k],
     confidence_score |-> 90,
     is_active |-> is_active,
     source_log |-> k]

\* table contents of up to MaxPatterns rows
PatternTables ==
    UNION { { [k \in 1..n |-> PatternRow(k, ts[k], as[k])] :
                ts \in [1..n -> Tenants], as \in [1..n -> BOOLEAN] } :
            n \in 0..MaxPatterns }

NoFewShot == [tenant_id |-> "A", fetched |-> FALSE, block |-> << >>]

\* SICCService.prepare_context, its few-shot half: get_active_patterns and
\* build_dynamic_few_shot for the tenant of the turn
assemble_few_shot(tenant_id, ok) ==
    /\ few_shot' = [tenant_id |-> tenant_id,
                    fetched |-> ok,
                    block |-> build_dynamic_few_shot(
                                  get_active_patterns(tenant_id, ok).value)]
    /\ UNCHANGED <<turnVars, learnVars, embedVars, sessionVars, graph_nodes, breakerVars,
                   sicc_enabled, registry, chunks, last_search>>

----
\* RedisMemoryManager: the session store by conversation key

Conversations == {"c1", "c2"}

\* messages pushed under one key before it expires
MaxAppends == 22

\* the n-th message pushed under a key
NthMessage(n) ==
    [role |-> IF n % 2 = 1 THEN "user" ELSE "assistant",
     content |-> <<ToString(n)>>]

NoRead == [conversation_id |-> "c1", value |-> << >>]

\* RedisMemoryManager.add_message: rpush, expire and ltrim in one pipeline
RedisMemoryManager_add_message(conversation_id) ==
    /\ Len(appended[conversation_id]) < MaxAppends
    /\ LET msg == NthMessage(Len(appended[conversation_id]) + 1)
       IN  /\ sessions' = [sessions EXCEPT ![conversation_id] =
                              add_message(@, msg.role, msg.content)]
           /\ appended' = [appended EXCEPT ![conversation_id] = Append(@, msg)]
    /\ UNCHANGED last_read
    /\ UNCHANGED <<turnVars, learnVars, embedVars, few_shot, graph_nodes, breakerVars,
                   sicc_enabled, registry, chunks, last_search>>

\* RedisMemoryManager.get_history: lrange key 0 -1
get_history(conversation_id) ==
    /\ last_read' = [conversation_id |-> conversation_id,
                     value |-> sessions[conversation_id]]
    /\ UNCHANGED <<sessions, appended>>
    /\ UNCHANGED <<turnVars, learnVars, embedVars, few_shot, graph_nodes, breakerVars,
                   sicc_enabled, registry, chunks, last_search>>

\* the key's TTL, set anew by each add_message, runs out: the key is gone
key_expires(conversation_id) ==
    /\ sessions[conversation_id] # << >>
    /\ sessions' = [sessions EXCEPT ![conversation_id] = << >>]
    /\ appended' = [appended EXCEPT ![conversation_id] = << >>]
    /\ UNCHANGED last_read
    /\ UNCHANGED <<turnVars, learnVars, embedVars, few_shot, graph_nodes, breakerVars,
                   sicc_enabled, registry, chunks, last_search>>

----
\* CircuitBreaker and the health checks of ExternalServiceValidator, whose one
\* instance serves every request of the process

CLOSED == "closed"
OPEN == "open"
HALF_OPEN == "half_open"

CircuitBreakerState == {CLOSED, OPEN, HALF_OPEN}

\* _setup_circuit_breakers: the configuration given to every breaker
failure_threshold == 3

\* 60 seconds, in units of 30 seconds
recovery_timeout == 2

\* health checks of one service that can be in flight together
MaxChecks == 2

\* how far the clock runs
MaxClock == 4

\* failures counted by one breaker
MaxFailures == 5

Checks == 1..MaxChecks

\* last_failure_time is None
NoTime == -1

\* CircuitBreaker.__init__
NewBreaker ==
    [state |-> CLOSED, failure_count |-> 0, last_failure_time |-> NoTime]

\* CircuitBreaker.can_execute: the answer, and the breaker after the call
can_execute(self, now) ==
    IF self.state = CLOSED
    THEN [value |-> TRUE, self |-> self]
    ELSE IF self.state = OPEN
    THEN IF /\ self.last_failure_time # NoTime
            /\ now - self.last_failure_time >= recovery_timeout
         THEN [value |-> TRUE, self |-> [self EXCEPT !.state = HALF_OPEN]]
         ELSE [value |-> FALSE, self |-> self]
    ELSE [value |-> TRUE, self |-> self]

\* CircuitBreaker.record_success
record_success(self) ==
    [self EXCEPT !.failure_count = 0,
                 !.state = IF @ = HALF_OPEN THEN CLOSED ELSE @]

\* CircuitBreaker.record_failure
record_failure(self, now) ==
    LET count == self.failure_count + 1
    IN  [state |-> IF count >= failure_threshold THEN OPEN ELSE self.state,
         failure_count |-> count,
         last_failure_time |-> now]

\* validate_evolution_api up to its request: the breaker is asked, and the
\* check either returns "Circuit breaker OPEN" or sends the request
validate_begin(k) ==
    /\ checks[k] = "idle"
    /\ LET asked == can_execute(breaker, utcnow)
       IN  /\ breaker' = asked.self
           /\ checks' = [checks EXCEPT ![k] = IF asked.value THEN "awaiting"
                                                           ELSE "refused"]
    /\ UNCHANGED utcnow
    /\ UNCHANGED <<turnVars, learnVars, embedVars, sessionVars, few_shot,
                   graph_nodes, sicc_enabled, registry, chunks, last_search>>

\* validate_evolution_api after its await: status 200 records a success, any
\* other status, a timeout or an exception records a failure
validate_response(k, ok) ==
    /\ checks[k] = "awaiting"
    /\ ok \/ breaker.failure_count < MaxFailures
    /\ breaker' = IF ok THEN record_success(breaker)
                        ELSE record_failure(breaker, utcnow)
    /\ checks' = [checks EXCEPT ![k] = "recorded"]
    /\ UNCHANGED utcnow
    /\ UNCHANGED <<turnVars, learnVars, embedVars, sessionVars, few_shot,
                   graph_nodes, sicc_enabled, registry, chunks, last_search>>

\* validate_evolution_api returns its ServiceHealthCheck
validate_return(k) ==
    /\ checks[k] \in {"refused", "recorded"}
    /\ checks' = [checks EXCEPT ![k] = "idle"]
    /\ UNCHANGED <<breaker, utcnow>>
    /\ UNCHANGED <<turnVars, learnVars, embedVars, sessionVars, few_shot,
                   graph_nodes, sicc_enabled, registry, chunks, last_search>>

\* get_circuit_breaker_status: reports can_execute() of the breaker
get_circuit_breaker_status ==
    /\ breaker' = can_execute(breaker, utcnow).self
    /\ UNCHANGED <<checks, utcnow>>
    /\ UNCHANGED <<turnVars, learnVars, embedVars, sessionVars, few_shot,
                   graph_nodes, sicc_enabled, registry, chunks, last_search>>

\* 30 seconds pass
clock_tick ==
    /\ utcnow < MaxClock
    /\ utcnow' = utcnow + 1
    /\ UNCHANGED <<breaker, checks>>
    /\ UNCHANGED <<turnVars, learnVars, embedVars, sessionVars, few_shot,
                   graph_nodes, sicc_enabled, registry, chunks, last_search>>

----
\* Initial states

NoSearch == [tenant_id |-> "A", query |-> << >>, returned |-> {}]

BlankState == [tenant_id |-> "A",
               tenant_config |-> tenant_config_of(TenantRecord("A")),
               messages |-> << >>,
               knowledge_context |-> << >>,
               sicc_memory_context |-> None,
               sicc_few_shot_context |-> None,
               intent |-> << >>,
               final_response |-> << >>,
               should_handoff |-> FALSE,
               handoff_reason |-> None,
               supervisor_feedback |-> None,
               products_recommended |-> << >>]

ApprovedLog(id, tenant_id) ==
    [id |-> id, tenant_id |-> tenant_id, pattern_data |-> PatternData,
     confidence_score |-> 90, status |-> "approved"]

\* learning-store contents a turn can start from: nothing learned yet, or
\* one promoted pattern of each tenant
LearnedSeeds ==
    { [logs |-> << >>, patterns |-> << >>],
      [logs |-> << ApprovedLog(1, "A"), ApprovedLog(2, "B") >>,
       patterns |-> << NewPattern(ApprovedLog(1, "A")),
                       NewPattern(ApprovedLog(2, "B")) >>] }

InitCommon ==
    /\ pc = "idle"
    /\ state = BlankState
    /\ steps = 0
    /\ trace = << >>
    /\ faults = {}
    /\ router_answer = None
    /\ llm_response = None
    /\ result = None
    /\ message_text = << >>
    /\ handoffs = << >>
    /\ last_search = NoSearch
    /\ workers = [w \in Workers |-> IdleWorker]
    /\ emb_model = 0
    /\ emb_lock = 0
    /\ emb_built = 0
    /\ callers = [c \in Callers |-> IdleCaller]
    /\ calls = << >>
    /\ llm_keys = {}
    /\ sessions = [c \in Conversations |-> << >>]
    /\ appended = [c \in Conversations |-> << >>]
    /\ last_read = NoRead
    /\ few_shot = NoFewShot
    /\ breaker = NewBreaker
    /\ checks = [k \in Checks |-> "idle"]
    /\ utcnow = 0

\* session-store contents a turn can start from: a new conversation, or one
\* earlier turn of it
HistorySeeds ==
    { << >>,
      << [role |-> "user", content |-> <<"oi">>],
         [role |-> "assistant", content |-> <<"resposta">>] >> }

\* memory-store contents a turn can start from: nothing stored yet, or the
\* same message stored by an earlier turn of each tenant
ChunkSeeds ==
    { << >>,
      << [id |-> 1, tenant_id |-> "A", content |-> <<"oi">>, relevance_score |-> 0],
         [id |-> 2, tenant_id |-> "B", content |-> <<"oi">>, relevance_score |-> 5] >> }

Init ==
    /\ InitCommon
    /\ history \in HistorySeeds
    /\ chunks \in ChunkSeeds
    /\ sicc_enabled \in BOOLEAN
    /\ registry \in {{}, {product_sales}}
    /\ graph_nodes = registry
    /\ \E seed \in LearnedSeeds : logs = seed.logs /\ patterns = seed.patterns

\* one deployment with the memory service, a registered skill and both
\* tenants' stores populated
InitPopulated ==
    /\ InitCommon
    /\ history = << >>
    /\ chunks \in ChunkSeeds /\ chunks # << >>
    /\ sicc_enabled = TRUE
    /\ registry = {product_sales}
    /\ graph_nodes = registry
    /\ \E seed \in LearnedSeeds :
          seed.logs # << >> /\ logs = seed.logs /\ patterns = seed.patterns

\* any contents of the pattern table, nothing else stored
InitPatternTables ==
    /\ InitCommon
    /\ history = << >>
    /\ chunks = << >>
    /\ sicc_enabled = TRUE
    /\ registry = {product_sales}
    /\ graph_nodes = registry
    /\ logs = << >>
    /\ patterns \in PatternTables

\* the graph was compiled with the skills registered by then: all of them,
\* or none when no skill module had been imported yet
InitAnyRegistrationOrder ==
    /\ InitCommon
    /\ history = << >>
    /\ chunks \in ChunkSeeds /\ chunks # << >>
    /\ sicc_enabled = TRUE
    /\ registry \in {{}, {product_sales}}
    /\ graph_nodes = registry
    /\ \E seed \in LearnedSeeds :
          seed.logs # << >> /\ logs = seed.logs /\ patterns = seed.patterns

InitStores ==
    /\ InitCommon
    /\ history = << >>
    /\ chunks = << >>
    /\ sicc_enabled = TRUE
    /\ registry = {product_sales}
    /\ graph_nodes = registry
    /\ logs = << >>
    /\ patterns = << >>

----
\* Next-state relations

Next ==
    \/ \E t \in Tenants, m \in Messages, found \in BOOLEAN : StartTurn(t, m, found)
    \/ GraphRecursionError
    \/ \E ok \in BOOLEAN : load_context(ok)
    \/ \E failAt \in 0..(PrepareContextLimit + 1), behOk \in BOOLEAN :
          sicc_retriever(failAt, behOk)
    \/ \E a \in RouterAnswers : route_answer(a)
    \/ route_fails
    \/ \E ps \in {<< >>, Catalog} : skill_node(ps)
    \/ \E c \in GenContents, ok \in BOOLEAN : generate_response(c, ok)
    \/ \E ok \in BOOLEAN : generate_store_interaction(ok)
    \/ \E v \in SupervisorVerdicts : supervisor(v)
    \/ \E a \in Analyses, ok \in BOOLEAN : sicc_reflection(a, ok)
    \/ \E out \in HandoffOutputs : evaluate_handoff(out)
    \/ \E redisFail \in 0..2, dbOk \in BOOLEAN : finalize(redisFail, dbOk)

CandidateLists ==
    {<<a>> : a \in Scores} \cup {<<a, b>> : a \in Scores, b \in Scores}

LearningStep(w) ==
    \/ \E scope \in Tenants \cup {AllTenants}, ok \in BOOLEAN :
          process_pending_query(w, scope, ok)
    \/ process_pending_next(w)
    \/ \E id \in 1..MaxLogs : approve_learning_call(w, id)
    \/ \E ok \in BOOLEAN : approve_learning_fetch(w, ok)
    \/ \E ok \in BOOLEAN : approve_learning_insert(w, ok)
    \/ \E ok \in BOOLEAN : approve_learning_update(w, ok)

Suggest ==
    \E scores \in CandidateLists, t \in Tenants, ok \in BOOLEAN :
        suggest_learning(scores, t, ok)

Analyze ==
    \E w \in Workers, t \in Tenants, out \in ExtractOutcomes,
       suggestOk \in BOOLEAN, queryOk \in BOOLEAN :
        analyze_conversation(w, t, out, suggestOk, queryOk)

NextLearning ==
    \/ Suggest
    \/ Analyze
    \/ \E w \in Workers : LearningStep(w)

NextMemory ==
    \/ \E t \in Tenants, m \in Messages, ok \in BOOLEAN : store_interaction(t, m, ok)
    \/ \E t \in Tenants, m \in Messages, failAt \in 0..(SearchDefaultLimit + 1) :
          memory_search(t, m, failAt)

NextEmbeddings ==
    \E c \in Callers :
        \/ get_model_check(c)
        \/ get_model_acquire(c)
        \/ \E ok \in BOOLEAN : get_model_load(c, ok)
        \/ get_model_release(c)
        \/ get_model_return(c)
        \/ get_model_retry(c)

NextSession ==
    \E c \in Conversations :
        \/ RedisMemoryManager_add_message(c)
        \/ get_history(c)
        \/ key_expires(c)

NextBreaker ==
    \/ \E k \in Checks :
          \/ validate_begin(k)
          \/ \E ok \in BOOLEAN : validate_response(k, ok)
          \/ validate_return(k)
    \/ get_circuit_breaker_status
    \/ clock_tick

NextFewShot ==
    \E t \in Tenants, ok \in BOOLEAN : assemble_few_shot(t, ok)

Spec == Init /\ [][Next]_vars

SpecLearning == InitStores /\ [][NextLearning]_vars

SpecMemory == InitStores /\ [][NextMemory]_vars

\* turns in which a call may also never respond; the event loop resumes
\* every coroutine whose awaited call has completed
NextUnresponsive == Next \/ external_call_hangs

SpecUnresponsive ==
    InitPopulated /\ [][NextUnresponsive]_vars /\ WF_vars(NextUnresponsive)

\* turns of a process in which a skill may be registered at any moment
NextLateRegistration == Next \/ SkillRegistry_register(product_sales)

SpecLateRegistration ==
    InitAnyRegistrationOrder /\ [][NextLateRegistration]_vars

SpecFewShot == InitPatternTables /\ [][NextFewShot]_vars

SpecSession == InitStores /\ [][NextSession]_vars

SpecBreaker == InitStores /\ [][NextBreaker]_vars

SpecEmbeddings == InitStores /\ [][NextEmbeddings]_vars

----
\* Properties

PatternsOf(id) ==
    Cardinality({k \in 1..Len(patterns) : patterns[k].source_log = id})

Quiescent == \A w \in Workers : workers[w].op \in {"idle", "done"}

\* C1: in one turn the generation stage executes at most twice, however
\* often the Response Supervisor rejects the reply.
C1_GenerationAtMostTwice == Count(trace, "generate") <= 2

\* C2: a search issued with one tenant's id never returns a chunk that was
\* stored with another tenant's id, also for an identical query string.
C2_TenantIsolation ==
    \A id \in last_search.returned :
        /\ id \in 1..Len(chunks)
        /\ chunks[id].tenant_id = last_search.tenant_id

\* C2 witness: tenant B searched with a query that matches a chunk of tenant A
\* which A's own search has already returned (and boosted), and B got only
\* its own chunk back.
C2_Witness ==
    /\ last_search.tenant_id = "B"
    /\ last_search.returned # {}
    /\ \E i \in 1..Len(chunks) :
          /\ chunks[i].tenant_id = "A"
          /\ Similar(last_search.query, chunks[i].content)
          /\ chunks[i].relevance_score > 0
          /\ i \notin last_search.returned

\* C3: when the model call of the generation stage fails, process_message
\* does not raise and returns a non-empty safe-default reply.
C3_GenerationFailureSafeDefault ==
    "generate_llm" \in faults =>
        /\ pc # "raised"
        /\ pc = "returned" => Truthy(result.response)

RetrievalFailed == "memory_search" \in faults \/ "behavior_fetch" \in faults

\* C4: when the memory search or the behavior fetch raises, the turn is not
\* aborted: the block of the failed retrieval stays empty, the later stages
\* run, and process_message returns a non-empty response.
C4_RetrievalFailureDegrades ==
    RetrievalFailed =>
        /\ "memory_search" \in faults => state.sicc_memory_context = << >>
        /\ "behavior_fetch" \in faults => state.sicc_few_shot_context = << >>
        /\ pc # "raised"
        /\ pc = "returned" => Truthy(result.response)

UnmatchedAnswer ==
    /\ router_answer # None
    /\ Lower(Strip(router_answer)) # general
    /\ Lower(Strip(router_answer)) \notin registry

\* C5: a router answer that is not 'general' and names no registered skill
\* is routed to the generic generation node: the routing does not fail, no
\* skill node runs in that turn, and generation is the next node.
C5_RouterFallback ==
    UnmatchedAnswer =>
        /\ pc # "skill"
        /\ Count(trace, "skill") = 0
        /\ "router_llm" \notin faults
        /\ Len(trace) = 2 => pc = "generate"
        /\ Len(trace) > 2 => trace[3] = "generate"

\* C5 witness: with a skill registered, an answer naming no skill was routed
\* and the generation node ran.
C5_Witness ==
    /\ UnmatchedAnswer
    /\ registry # {}
    /\ router_answer # << >>
    /\ Count(trace, "generate") >= 1

\* C6: approve_learning on an entry whose status is already approved creates
\* no additional Behavior Pattern.
C6_ApproveApprovedIsNoOp ==
    [][\A w \in Workers :
          (/\ workers[w].stage = "fetched"
           /\ logs[workers[w].log].status = "approved")
          => patterns' = patterns]_vars

\* C7: whenever process_message returns, the returned response is non-empty.
C7_ResponseNonEmpty == pc = "returned" => Truthy(result.response)

\* C8: the generation stage does not wait for the memory write it starts:
\* while that write is pending, final_response is already set.
C8_GenerationDoesNotAwaitStore ==
    pc = "store_interaction" => state.final_response = llm_response

InScope(scope, log) == scope = AllTenants \/ log.tenant_id = scope

\* the entries a completed scan had to promote
Promotable(me) ==
    {id \in me.seen : /\ InScope(me.scope, logs[id])
                      /\ logs[id].confidence_score >= auto_approve_threshold}

\* C9: after process_pending_learnings completes with no store failure,
\* exactly the entries that were pending, in scope and at or above the
\* threshold are approved and have spawned one pattern each; every other
\* pending entry is still pending and has spawned none.
C9_ProcessPendingPromotesExactly ==
    \A w \in Workers :
        LET me == workers[w]
        IN  (me.op = "done" /\ me.stage = "process" /\ ~me.failed) =>
            /\ \A id \in Promotable(me) : logs[id].status = "approved"
            /\ \A id \in me.seen \ Promotable(me) : logs[id].status = "pending"
            /\ {patterns[k].source_log : k \in (me.base + 1)..Len(patterns)}
                   = Promotable(me)
            /\ Len(patterns) - me.base = Cardinality(Promotable(me))

\* C9 witness: a scan scoped to one tenant completed without failure, promoted
\* an entry and left another pending entry alone.
C9_Witness ==
    \E w \in Workers :
        LET me == workers[w]
        IN  /\ me.op = "done" /\ me.stage = "process" /\ ~me.failed
            /\ me.scope # AllTenants
            /\ Promotable(me) # {}
            /\ me.seen \ Promotable(me) # {}

\* C10: every Behavior Pattern comes from an approved Learning Log entry and
\* every approved entry has exactly one pattern (between calls).
C10_PatternsMatchApprovedLogs ==
    Quiescent =>
        /\ \A k \in 1..Len(patterns) :
              logs[patterns[k].source_log].status = "approved"
        /\ \A id \in 1..Len(logs) :
              logs[id].status = "approved" => PatternsOf(id) = 1

\* C11: while the model is not loaded, concurrent requests construct it at
\* most once, and every caller that returns holds the one constructed
\* instance, which is the instance the class keeps.
C11_ModelConstructedOnce ==
    /\ emb_built <= 1
    /\ \A c \in Callers :
          callers[c].pc = "done" =>
              /\ emb_built = 1
              /\ callers[c].got = emb_model
              /\ callers[c].got # 0
    /\ \A c, d \in Callers :
          callers[c].pc = "done" /\ callers[d].pc = "done" =>
              callers[c].got = callers[d].got

\* two callers that both found the model unloaded have both returned
C11_Witness ==
    \E c, d \in Callers :
        /\ c # d
        /\ callers[c].pc = "done" /\ callers[c].saw_none
        /\ callers[d].pc = "done" /\ callers[d].saw_none

\* the nodes an edge of the compiled graph leads to from a node
StageSuccessors(node) ==
    CASE node = "load_context" -> {"sicc_retriever"}
      [] node = "sicc_retriever" -> {"skill", "generate"}
      [] node = "skill" -> {"generate"}
      [] node = "generate" -> {"supervisor"}
      [] node = "supervisor" -> {"generate", "sicc_reflection"}
      [] node = "sicc_reflection" -> {"check_handoff"}
      [] OTHER -> {}

\* C12: the stages of a turn run in the fixed order load context, memory
\* retrieval, routed skill (only when the router's answer names a registered
\* skill), generation and Response Supervisor (with the return edge between
\* them), reflection, handoff evaluation, finalize; every stage but
\* generation and supervision runs at most once, and a turn that returns ran
\* reflection and handoff evaluation exactly once, after the last verdict.
C12_StageOrder ==
    /\ trace # << >> => trace[1] = "load_context"
    /\ \A i \in 1..(Len(trace) - 1) : trace[i + 1] \in StageSuccessors(trace[i])
    /\ \A n \in {"load_context", "sicc_retriever", "skill",
                 "sicc_reflection", "check_handoff"} : Count(trace, n) <= 1
    /\ Count(trace, "skill") = 1 => Lower(Strip(router_answer)) \in registry
    /\ pc \in {"finalize", "returned"} =>
          /\ Len(trace) >= 4
          /\ trace[Len(trace)] = "check_handoff"
          /\ trace[Len(trace) - 1] = "sicc_reflection"
          /\ trace[Len(trace) - 2] = "supervisor"
          /\ Count(trace, "sicc_reflection") = 1
          /\ Count(trace, "check_handoff") = 1

\* a returned turn that took the supervisor's return edge once
C12_Witness ==
    /\ pc = "returned"
    /\ Count(trace, "generate") = 2
    /\ Count(trace, "supervisor") = 2

\* every b in seq has an a before it
Precedes(seq, a, b) ==
    \A j \in 1..Len(seq) : seq[j] = b => \E i \in 1..(j - 1) : seq[i] = a

C14_IntentClassified ==
    pc = "returned" => Truthy(result.intent)

\* C15: in a turn of a tenant whose record carries a credential of its own,
\* every model client called was built with that credential, never with the
\* deployment's or another tenant's.
C15_TenantCredential ==
    LET own == TenantRecord(state.tenant_id).openai_api_key
    IN  pc # "idle" /\ Truthy(own) => llm_keys \subseteq {own}

C17_UnresponsiveCallStillReturns ==
    (pc = "waiting") ~> (pc = "returned")

\* C18: when a turn returns, the session store was sent the inbound message
\* and the outbound reply of the turn, the inbound one first, both after the
\* graph had produced the final result.
C18_BothMessagesPersisted ==
    pc = "returned" =>
        /\ Count(trace, "check_handoff") = 1
        /\ Count(calls, "session.add_message:user") = 1
        /\ Count(calls, "session.add_message:assistant") = 1
        /\ Precedes(calls, "session.add_message:user",
                    "session.add_message:assistant")

\* C19: when the handoff evaluation's model call fails or its answer is not
\* valid JSON, the stage sets should_handoff to false, leaves final_response
\* as it was and hands the turn on to its completion instead of raising.
C19_HandoffFailureSafe ==
    [][(pc = "check_handoff" /\ "handoff_llm" \in faults' /\ faults' # faults) =>
          /\ ~state'.should_handoff
          /\ state'.final_response = state.final_response
          /\ pc' = "finalize"]_vars

\* a turn returned after its handoff evaluation failed
C19_Witness ==
    /\ pc = "returned"
    /\ "handoff_llm" \in faults
    /\ ~result.should_handoff
    /\ result.response = state.final_response

\* C20: when the reflection's model call fails, the node changes nothing and
\* the turn goes on to the handoff evaluation.
C20_ReflectionFailureNoOp ==
    [][(pc = "sicc_reflection" /\ "reflection_llm" \in faults') =>
          /\ state' = state
          /\ pc' = "check_handoff"]_vars

\* str.startswith(marker)
BeginsWithMarker(analysis) ==
    analysis # << >> /\ Head(analysis) = CorrectionMarker

\* the text that follows a leading marker
TextAfterMarker(analysis) == Strip(Tail(analysis))

\* C21: the reflection stage leaves the state unchanged and calls no model
\* when final_response or the few-shot context is empty; it leaves the state
\* unchanged when the analysis does not begin with the correction marker; an
\* analysis that begins with the marker replaces final_response with the
\* text after the marker and changes no other field.
C21_ReflectionFrame ==
    [][(pc = "sicc_reflection" /\ pc' = "check_handoff") =>
          IF ~Truthy(state.final_response) \/ ~Truthy(state.sicc_few_shot_context)
          THEN state' = state /\ llm_keys' = llm_keys
          ELSE \E a \in Analyses :
                  IF BeginsWithMarker(a)
                  THEN state' = [state EXCEPT !.final_response = TextAfterMarker(a)]
                  ELSE state' = state]_vars

\* C22: no store or search operation lowers a chunk's relevance_score, and a
\* search raises the score of every chunk it returns by the fixed boost,
\* once.
C22_RelevanceMonotonicBoost ==
    [][/\ Len(chunks') >= Len(chunks)
       /\ \A i \in 1..Len(chunks) :
             chunks'[i].relevance_score >= chunks[i].relevance_score
       /\ Len(chunks') = Len(chunks) =>
             \A id \in last_search'.returned :
                 chunks'[id].relevance_score
                     = chunks[id].relevance_score + RelevanceBoost]_vars

\* a search returned two chunks, one of them for the second time
C22_Witness ==
    /\ Cardinality(last_search.returned) >= 2
    /\ \A id \in last_search.returned :
          chunks[id].relevance_score >= RelevanceBoost
    /\ \E id \in last_search.returned :
          chunks[id].relevance_score >= 2 * RelevanceBoost

\* the last n elements of seq, in order
Suffix(seq, n) ==
    IF Len(seq) <= n THEN seq ELSE SubSeq(seq, Len(seq) - n + 1, Len(seq))

\* C23: after any sequence of add_message calls the list kept for a
\* conversation has at most AGENT_MEMORY_WINDOW entries, which are the most
\* recently pushed messages in the order they were pushed, and get_history
\* returns that list, oldest first.
C23_HistoryWindow ==
    /\ [](\A c \in Conversations :
             /\ Len(sessions[c]) <= AGENT_MEMORY_WINDOW
             /\ sessions[c] = Suffix(appended[c], AGENT_MEMORY_WINDOW))
    /\ [][last_read' # last_read =>
             last_read'.value = Suffix(appended[last_read'.conversation_id],
                                       AGENT_MEMORY_WINDOW)]_vars

\* a conversation that was pushed more messages than the window holds has
\* been read
C23_Witness ==
    /\ Len(appended[last_read.conversation_id]) > AGENT_MEMORY_WINDOW
    /\ Len(last_read.value) = AGENT_MEMORY_WINDOW
    /\ last_read.value = sessions[last_read.conversation_id]

\* the rows of the table a few-shot block for the tenant has to show
ActiveRowsOf(tenant_id) ==
    {k \in 1..Len(patterns) :
        patterns[k].tenant_id = tenant_id /\ patterns[k].is_active}

\* the positions of a token in a text
PositionsOf(text, tok) == {i \in 1..Len(text) : text[i] = tok}

\* C24: the few-shot block assembled for a tenant holds one WHEN / SUGGESTED
\* RESPONSE pair for each Behavior Pattern stored with that tenant_id and
\* is_active true at retrieval time, in table order, and nothing of an
\* inactive pattern or of another tenant's; it is the empty string when there
\* is no such pattern.
C24_FewShotExactlyActiveOwn ==
    LET block == few_shot.block
        rows == ActiveRowsOf(few_shot.tenant_id)
        whens == PositionsOf(block, "- QUANDO:")
    IN  /\ ~few_shot.fetched => block = << >>
        /\ few_shot.fetched =>
              /\ (block = << >>) <=> (rows = {})
              /\ Cardinality(whens) = Cardinality(rows)
              /\ Cardinality(PositionsOf(block, "RESPOSTA SUGERIDA:"))
                     = Cardinality(rows)
              /\ \A k \in rows :
                    \E i \in whens :
                        /\ block[i + 1] = patterns[k].trigger_condition
                        /\ block[i + 2] = "RESPOSTA SUGERIDA:"
                        /\ block[i + 3] = patterns[k].response_template
              /\ \A k, l \in rows :
                    k < l =>
                        \E i, j \in whens :
                            /\ i < j
                            /\ block[i + 1] = patterns[k].trigger_condition
                            /\ block[j + 1] = patterns[l].trigger_condition
        /\ \A k \in (1..Len(patterns)) \ rows :
              \A i \in 1..Len(block) :
                  /\ block[i] # patterns[k].trigger_condition
                  /\ block[i] # patterns[k].response_template

\* a block was assembled for a tenant that has an active pattern, an inactive
\* one, and a neighbour with an active pattern
C24_Witness ==
    /\ few_shot.fetched
    /\ few_shot.block # << >>
    /\ \E k \in 1..Len(patterns) :
          patterns[k].tenant_id = few_shot.tenant_id /\ ~patterns[k].is_active
    /\ \E k \in 1..Len(patterns) :
          patterns[k].tenant_id # few_shot.tenant_id /\ patterns[k].is_active

\* the router's answer is a registered skill's name up to letter case (and
\* surrounding whitespace)
AnswerNamesSkillUpToCase ==
    /\ router_answer # None
    /\ \E s \in registry : Lower(Strip(router_answer)) = Lower(s)

\* C25: an answer of the router's model that differs from a registered
\* skill's name only in letter case is routed to that skill's node, not to
\* the generic path.
C25_RouterCaseInsensitive ==
    AnswerNamesSkillUpToCase =>
        /\ pc = "skill" \/ Count(trace, "skill") = 1
        /\ Len(trace) > 2 => trace[3] = "skill"

\* an answer in upper case was routed to the skill, which ran
C25_Witness ==
    /\ AnswerNamesSkillUpToCase
    /\ router_answer \notin registry
    /\ Strip(router_answer) \notin registry
    /\ Count(trace, "skill") = 1

\* C26: the reply returned to the caller is never the Response Supervisor's
\* rejection text '[REPROVADO] <reason>': after every rejection, with or
\* without a correction hint, generation runs again and overwrites it.
C26_RejectionTextNeverReturned ==
    pc = "returned" =>
        ~(result.response # << >> /\ Head(result.response) = "[REPROVADO]")

\* C27: the inbound message of a turn is written to the Memory Store at most
\* once in that turn, also when generation runs again after a rejection.
C27_MemoryWriteAtMostOnce ==
    Count(calls, "memory.store") <= 1

\* C28: whatever the order of skill registration and graph construction, a
\* routing decision never names a node the compiled graph does not have.
C28_RoutedNodeExists ==
    "missing_node" \notin faults

\* the chunks whose score a step changed
Boosted == {i \in 1..Len(chunks) : chunks'[i].relevance_score
                                       # chunks[i].relevance_score}

\* C29: a failure while the boosts of a search are applied does not change
\* what the search returns (the chunks the similarity query found), and a
\* search boosts no chunk that its result does not include.
C29_BoostFailureKeepsResult ==
    [][(Len(chunks') = Len(chunks) /\ Boosted # {}) =>
          /\ Boosted \subseteq last_search'.returned
          /\ last_search'.returned
                 = {c.id : c \in {SearchRows(last_search'.tenant_id,
                                              last_search'.query,
                                              SearchDefaultLimit)[k] :
                                    k \in 1..Len(SearchRows(last_search'.tenant_id,
                                                            last_search'.query,
                                                            SearchDefaultLimit))}}]_vars

\* C30: under any interleaving of the health checks that passed can_execute,
\* a failure recorded while the breaker is HALF_OPEN moves it back to OPEN,
\* and the breaker is never OPEN with failure_count below failure_threshold.
FailureRecorded ==
    \E k \in Checks :
        /\ checks[k] = "awaiting"
        /\ checks'[k] = "recorded"
        /\ breaker'.failure_count = breaker.failure_count + 1

C30_BreakerReopensAndCounts ==
    /\ [](breaker.state = OPEN => breaker.failure_count >= failure_threshold)
    /\ [][FailureRecorded /\ breaker.state = HALF_OPEN
             => breaker'.state = OPEN]_vars

\* the two halves of C30, each on its own
C30_OpenHasThresholdFailures ==
    breaker.state = OPEN => breaker.failure_count >= failure_threshold

C30_HalfOpenFailureReopens ==
    [][FailureRecorded /\ breaker.state = HALF_OPEN
          => breaker'.state = OPEN]_vars

====
